---- MODULE Spec2Model ----
(***************************************************************************)
(* Fmt, the Acme formatting harness (eaburns/Fmt), as a state machine.     *)
(* The repository holds three revisions of main: src/unnamed/part_000,     *)
(* src/fmt.go and src/unnamed/part_001.  The variable rev selects one of   *)
(* them; every step of main is one action, translated per revision.        *)
(***************************************************************************)
EXTENDS Integers, Sequences, FiniteSets, TLC

\* Longest buffer body / formatter output considered.
MaxLen == 2

\* Byte values; 0 is the zero value of a Go byte.
Byte == {0, 1}

Revs == {"part_000", "fmt", "part_001"}

Contents == UNION {[1..k -> Byte] : k \in 0..MaxLen}

\* Selections of body b: <<q0, q1>> with q0 <= q1 <= Len(b).
Selections(b) == {s \in (0..Len(b)) \X (0..Len(b)) : s[1] <= s[2]}

VARIABLES
  rev,        \* which revision of main runs
  pc,         \* position of main
  body,       \* the window's body (BufferContent)
  body0,      \* the body when the run started (history)
  off,        \* read offset of the window's "body" file
  dot,        \* the live selection of the window
  addr,       \* the window's address register
  addrOpen,   \* whether the addr file has been opened yet
  q,          \* <<q0, q1>> returned by readAddr
  ffile,      \* name of the temp file returned by format ("" if none)
  tmp,        \* content of the temp file
  tmpExists,  \* whether the temp file exists
  sameSize,   \* format's second result (noChange / sameSize)
  diff,       \* result of the comparison as main uses it
  status,     \* the exit status decided so far
  diag,       \* lines written to os.Stderr, by phase
  cmds,       \* requests sent to the window, in order
  steps,      \* steps of main that were performed (history)
  failed,     \* steps that returned an error, looked at or not (history)
  loop,       \* the comparison's read loop: iterations made (n) and the
              \* lengths of the temp file (f) and body stream (b) it read
  wrap        \* the counting wrappers: counters of the body reader (br) and
              \* temp file writer (fw), bytes the underlying streams
              \* returned (ur, uw), last return of a wrapper call (ret) and
              \* of the underlying call (uret)

vars == <<rev, pc, body, body0, off, dot, addr, addrOpen, q, ffile, tmp,
          tmpExists, sameSize, diff, status, diag, cmds, steps, failed,
          loop, wrap>>

hostVars == <<body, off, dot, addr, addrOpen, cmds>>
fileVars == <<ffile, tmp, tmpExists>>
auxVars == <<loop, wrap>>

----------------------------------------------------------------------------
\* The comparators.

\* Byte i of stream s as a one-byte read sees it: at end of data the read
\* stores nothing and the destination keeps its zero value.
readByte(s, i) == IF i <= Len(s) THEN s[i] ELSE 0

atEOF(s, i) == i > Len(s)

\* part_000: bytes.Equal on the two streams read whole.
equalsBodyWhole(f, b) == f = b

\* fmt.go: the loop of equalsBody from iteration i on.
RECURSIVE equalsBodyLoop(_, _, _)
equalsBodyLoop(f, b, i) ==
  IF readByte(f, i) # readByte(b, i) THEN FALSE
  ELSE IF atEOF(f, i) /\ atEOF(b, i) THEN TRUE
  ELSE equalsBodyLoop(f, b, i + 1)

equalsBody(f, b) == equalsBodyLoop(f, b, 1)

\* part_001: the loop of bodyDiff from iteration i on.
RECURSIVE bodyDiffLoop(_, _, _)
bodyDiffLoop(f, b, i) ==
  IF readByte(f, i) # readByte(b, i) THEN TRUE
  ELSE IF atEOF(f, i) /\ atEOF(b, i) THEN FALSE
  ELSE bodyDiffLoop(f, b, i + 1)

bodyDiff(f, b) == bodyDiffLoop(f, b, 1)

\* What a read of "body" yields from offset o to end of data.
bodyFrom(b, o) == SubSeq(b, o + 1, Len(b))

\* fmt.go: the iteration at which the loop of equalsBody returns or breaks
\* when it starts iteration i.
RECURSIVE equalsBodyIters(_, _, _)
equalsBodyIters(f, b, i) ==
  IF readByte(f, i) # readByte(b, i) THEN i
  ELSE IF atEOF(f, i) /\ atEOF(b, i) THEN i
  ELSE equalsBodyIters(f, b, i + 1)

\* part_001: the iteration at which the loop of bodyDiff returns.
RECURSIVE bodyDiffIters(_, _, _)
bodyDiffIters(f, b, i) ==
  IF readByte(f, i) # readByte(b, i) THEN i
  ELSE IF atEOF(f, i) /\ atEOF(b, i) THEN i
  ELSE bodyDiffIters(f, b, i + 1)

\* part_000: the iterations of the loop of readBody when i have been made,
\* done bytes are appended and each win.Read returns up to c bytes: one per
\* chunk and the one that sees io.EOF.
RECURSIVE readBodyIters(_, _, _, _)
readBodyIters(b, c, done, i) ==
  IF done >= Len(b) THEN i + 1
  ELSE readBodyIters(b, c, done + c, i + 1)

\* The iterations of revision r's read loop on temp file f and body stream
\* b, win.Read returning up to c bytes.
compareIters(r, f, b, c) ==
  CASE r = "part_000" -> readBodyIters(b, c, 0, 0)
    [] r = "fmt"      -> equalsBodyIters(f, b, 1)
    [] r = "part_001" -> bodyDiffIters(f, b, 1)

\* sizeAdd counting only the calls that returned no error.
sizeAddOnSuccess(size, n, err) == IF err = "nil" THEN size + n ELSE size

\* sizeReader.Read / sizeWriter.Write (countReader / countWriter): the
\* counter after a call whose underlying call returned (n, err).
sizeAdd(size, n, err) == size + n

\* sizeReader.Read / sizeWriter.Write: what the wrapper returns.
wrapReturn(n, err) == <<n, err>>

----------------------------------------------------------------------------
Init ==
  /\ rev \in Revs
  /\ pc = "main"
  /\ body \in Contents
  /\ body0 = body
  /\ off = 0
  /\ dot \in Selections(body)
  /\ addr = <<0, 0>>
  /\ addrOpen = FALSE
  /\ q = <<0, 0>>
  /\ ffile = ""
  /\ tmp = <<>>
  /\ tmpExists = FALSE
  /\ sameSize = FALSE
  /\ diff = FALSE
  /\ status = 0
  /\ diag = <<>>
  /\ cmds = <<>>
  /\ steps = {}
  /\ failed = {}
  /\ loop = [n |-> 0, f |-> 0, b |-> 0]
  /\ wrap = [br |-> 0, fw |-> 0, ur |-> 0, uw |-> 0,
             ret |-> <<0, "nil">>, uret |-> <<0, "nil">>]

\* abort with the os.Exit(1) after the Fprintf missing: main goes on.
abortNoExit(phase) ==
  /\ diag' = Append(diag, phase)
  /\ failed' = failed \cup {phase}
  /\ status' = 1
  /\ pc' = "format"

\* os.Exit(1) straight from main, before any temp file exists.
abort(phase) ==
  /\ diag' = Append(diag, phase)
  /\ failed' = failed \cup {phase}
  /\ status' = 1
  /\ pc' = "exit"

\* main: the usage check on len(os.Args).
usage ==
  /\ pc = "main"
  /\ \E nargs \in 1..2 :
       IF nargs < 2
       THEN abort("usage")
       ELSE /\ pc' = "openWin"
            /\ UNCHANGED <<diag, failed, status>>
  /\ UNCHANGED <<rev, body0, q, sameSize, diff, steps, hostVars, fileVars,
                 auxVars>>

\* main: openWin().
openWin ==
  /\ pc = "openWin"
  /\ \E ok \in BOOLEAN :
       IF ok
       THEN /\ pc' = "readAddr"
            /\ UNCHANGED <<diag, failed, status>>
       ELSE abort("open")
  /\ UNCHANGED <<rev, body0, q, sameSize, diff, steps, hostVars, fileVars,
                 auxVars>>

\* The addr file as the window serves it: Acme zeroes the address the first
\* time addr is opened.
hostReadAddr(a, opened) == IF opened THEN a ELSE <<0, 0>>

\* readAddrValue without the priming read: the ReadAddr after addr=dot is
\* the first to open addr.
readAddrValueNoPriming(d, opened) == hostReadAddr(d, opened)

\* readAddr: the pair the second ReadAddr returns, the live selection being
\* d: the priming read has opened addr, then addr=dot has set it to d.
readAddrValue(d, opened) == hostReadAddr(d, TRUE)

\* main: readAddr(win).  failAt = 0: no step fails; 1: the first ReadAddr;
\* 2: Ctl("addr=dot"); 3: the second ReadAddr.
readAddr ==
  /\ pc = "readAddr"
  /\ \E failAt \in 0..3 :
       LET a1 == hostReadAddr(addr, addrOpen)
           a2 == dot
           a3 == readAddrValue(a2, addrOpen)
       IN  /\ cmds' = cmds \o
                 (IF failAt = 1 THEN <<"readaddr">>
                  ELSE IF failAt = 2 THEN <<"readaddr", "addr=dot">>
                  ELSE <<"readaddr", "addr=dot", "readaddr">>)
           /\ addr' = IF failAt = 1 THEN addr ELSE IF failAt = 2 THEN a1 ELSE a2
           /\ addrOpen' = (addrOpen \/ failAt # 1)
           /\ IF failAt = 0
              THEN /\ q' = a3
                   /\ pc' = "format"
                   /\ UNCHANGED <<diag, failed, status>>
              ELSE /\ q' = <<0, 0>>
                   /\ abort("readAddr")
  /\ UNCHANGED <<rev, body, body0, off, dot, sameSize, diff, steps, fileVars,
                 auxVars>>

\* afterFormat with the err check of main left out.
afterFormatErrIgnored(r, ok, same) ==
  CASE r = "part_000" -> IF same THEN "out" ELSE "compare"
    [] r = "fmt"      -> IF ~same THEN "writeBody" ELSE "compare"
    [] r = "part_001" -> IF same THEN "compare" ELSE "writeBody"

\* main after format returned: where each revision goes next.
afterFormat(r, ok, same) ==
  IF ~ok THEN "out"
  ELSE CASE r = "part_000" -> IF same THEN "out" ELSE "compare"
         [] r = "fmt"      -> IF ~same THEN "writeBody" ELSE "compare"
         [] r = "part_001" -> IF same THEN "compare" ELSE "writeBody"

\* main: format(win, os.Args[1:]).  The formatter is an opaque child: it is
\* fed n bytes of the body, leaves out in the temp file, and the run and the
\* close of the temp file succeed or not.
format ==
  /\ pc = "format"
  /\ steps' = steps \cup {"format"}
  /\ \E created \in BOOLEAN :
       IF ~created
       THEN /\ ffile' = ""
            /\ sameSize' = FALSE
            /\ diff' = TRUE
            /\ diag' = Append(diag, "format")
            /\ failed' = failed \cup {"format"}
            /\ status' = 1
            /\ pc' = afterFormat(rev, FALSE, FALSE)
            /\ UNCHANGED <<tmp, tmpExists, off, wrap>>
       ELSE \E out \in Contents, n \in 0..Len(body), ok \in BOOLEAN :
            /\ ffile' = "Fmt"
            /\ tmp' = out
            /\ tmpExists' = TRUE
            /\ off' = n
            /\ wrap' = [wrap EXCEPT !.br = n, !.ur = n,
                                    !.fw = Len(out), !.uw = Len(out)]
            /\ sameSize' = (Len(out) = n)
            /\ diff' = (Len(out) # n)
            /\ diag' = IF ok THEN diag ELSE Append(diag, "format")
            /\ failed' = IF ok THEN failed ELSE failed \cup {"format"}
            /\ status' = IF ok THEN status ELSE 1
            /\ pc' = afterFormat(rev, ok, Len(out) = n)
  /\ UNCHANGED <<rev, body, body0, dot, addr, addrOpen, q, cmds, loop>>

\* The comparison of revision r on temp file content f and body stream b,
\* as the "differs" flag main keeps.
compareDiff(r, f, b) ==
  CASE r = "part_000" -> ~equalsBodyWhole(f, b)
    [] r = "fmt"      -> ~equalsBody(f, b)
    [] r = "part_001" -> bodyDiff(f, b)

\* afterCompare with the comparison made again whenever it returned an
\* error.
afterCompareRetry(r, err, d) ==
  IF err THEN "compare"
  ELSE IF d THEN "writeBody" ELSE "out"

\* afterCompare with the test of the comparison's result inverted.
afterCompareInverted(r, err, d) ==
  IF err THEN (IF r = "part_001" THEN "writeBody" ELSE "out")
  ELSE IF d THEN "out" ELSE "writeBody"

\* main after the comparison returned (err: it returned an error).
afterCompare(r, err, d) ==
  IF err THEN (IF r = "part_001" THEN "writeBody" ELSE "out")
  ELSE IF d THEN "writeBody" ELSE "out"

\* main: the exit status after the comparison.
compareStatus(r, err, st) == IF err /\ r # "part_001" THEN 1 ELSE st

\* main: what it prints when the comparison returned an error.
compareDiag(r, err, dg) ==
  IF err /\ r = "part_001" THEN Append(dg, "diff") ELSE dg

\* main: equalsBody(ffile) / equalsBody(win, ffile) / bodyDiff(win, ffile).
\* part_000 reads the temp file whole and the body through a fresh window;
\* fmt.go and part_001 open the temp file, seek "body" to 0 (the result of
\* the seek is not looked at) and read both streams byte by byte.
compare ==
  /\ pc = "compare"
  /\ steps' = steps \cup {"compare"}
  /\ \E openOk \in BOOLEAN, seekOk \in BOOLEAN, readOk \in BOOLEAN,
        c \in 1..MaxLen, at \in 1..(MaxLen + 1) :
       LET err    == ~(openOk /\ readOk)
           seeks  == rev # "part_000" /\ openOk
           from   == IF rev = "part_000" \/ seekOk THEN 0 ELSE off
           stream == bodyFrom(body, from)
           d      == IF err THEN TRUE ELSE compareDiff(rev, tmp, stream)
           full   == compareIters(rev, tmp, stream, c)
       IN  /\ rev = "part_000" => seekOk
           /\ ~openOk => (seekOk /\ readOk)
           /\ rev # "part_000" => c = 1
           /\ (openOk /\ ~readOk) => at <= full
           /\ ~(openOk /\ ~readOk) => at = 1
           /\ loop' = [n |-> IF ~openOk THEN 0 ELSE IF ~readOk THEN at ELSE full,
                       f |-> Len(tmp), b |-> Len(stream)]
           /\ cmds' = IF seeks THEN Append(cmds, "seek") ELSE cmds
           /\ off' = IF seeks THEN Len(body) ELSE off
           /\ diff' = d
           /\ failed' = failed \cup (IF err THEN {"compare"} ELSE {})
                               \cup (IF seeks /\ ~seekOk THEN {"seek"} ELSE {})
           /\ diag' = compareDiag(rev, err, diag)
           /\ status' = compareStatus(rev, err, status)
           /\ pc' = afterCompare(rev, err, d)
  /\ UNCHANGED <<rev, body, body0, dot, addr, addrOpen, q, sameSize, fileVars,
                 wrap>>

\* writeBodyCmds with mark sent at the end of the function body instead of
\* from a defer: the early returns skip it.
writeBodyCmdsMarkNotDeferred(r, o, w) ==
  (IF r = "part_001" THEN <<"nomark">> ELSE <<>>) \o
  (IF o # "open" THEN <<"addr=0,$">> ELSE <<>>) \o
  (IF w THEN <<"data">> ELSE <<>>) \o
  (IF r = "part_001" /\ o = "ok" THEN <<"mark">> ELSE <<>>)

\* writeBody: the requests it sends to the window.  o is how far it got
\* ("open": os.Open failed, "addr": win.Addr failed, "copy": io.Copy failed,
\* "ok"), w whether io.Copy called Write at all.  part_001 brackets the
\* rewrite with nomark and a deferred mark.
writeBodyCmds(r, o, w) ==
  (IF r = "part_001" THEN <<"nomark">> ELSE <<>>) \o
  (IF o # "open" THEN <<"addr=0,$">> ELSE <<>>) \o
  (IF w THEN <<"data">> ELSE <<>>) \o
  (IF r = "part_001" THEN <<"mark">> ELSE <<>>)

\* writeBody + main: what is printed (nomark and mark failures are printed
\* by writeBody and not returned; the returned error is printed by main).
writeBodyDiag(dg, nmOk, mOk, ok) ==
  dg \o (IF nmOk THEN <<>> ELSE <<"nomark">>)
     \o (IF mOk THEN <<>> ELSE <<"mark">>)
     \o (IF ok THEN <<>> ELSE <<"writeBody">>)

\* afterWriteBody with the error of writeBody not looked at.
afterWriteBodyErrIgnored(ok) == "showAddr"

\* main / writeFile after writeBody returned.
afterWriteBody(ok) == IF ok THEN "showAddr" ELSE "out"

\* main: writeBody(win, ffile).  k is the number of bytes of the temp file
\* that reached "data" before io.Copy returned.
writeBody ==
  /\ pc = "writeBody"
  /\ steps' = steps \cup {"writeBody"}
  /\ \E o \in {"open", "addr", "copy", "ok"}, k \in 0..Len(tmp),
        w \in BOOLEAN, nmOk \in BOOLEAN, mOk \in BOOLEAN :
       /\ rev # "part_001" => (nmOk /\ mOk)
       /\ o \in {"open", "addr"} => (k = 0 /\ ~w)
       /\ o = "copy" => ((k > 0 => w) /\ (Len(tmp) = 0 => ~w))
       /\ o = "ok" => (k = Len(tmp) /\ (w <=> Len(tmp) > 0))
       /\ cmds' = cmds \o writeBodyCmds(rev, o, w)
       /\ body' = IF k > 0 THEN SubSeq(tmp, 1, k) ELSE body
       /\ addr' = IF o \in {"open", "addr"} THEN addr
                  ELSE IF k > 0 THEN <<k, k>> ELSE <<0, Len(body)>>
       /\ diag' = writeBodyDiag(diag, nmOk, mOk, o = "ok")
       /\ failed' = IF o = "ok" THEN failed ELSE failed \cup {"writeBody"}
       /\ status' = IF o = "ok" THEN status ELSE 1
       /\ pc' = afterWriteBody(o = "ok")
  /\ UNCHANGED <<rev, body0, off, dot, addrOpen, q, sameSize, diff, fileVars,
                 auxVars>>

\* main after showAddr succeeded.  fmt.go calls exit(0, ffile) after the
\* writeFile of line 79, and returns from main after the writeFile of
\* line 89, the one reached through equalsBody.
afterShowAddr(r, viaCompare) ==
  IF r = "fmt" /\ viaCompare THEN "exit" ELSE "out"

\* showAddrStatus with the error of showAddr dropped.
showAddrStatusErrDropped(ok, st) == st

\* main: the exit status after showAddr.
showAddrStatus(ok, st) == IF ok THEN st ELSE 1

\* showAddrAddr with q0 passed for both offsets.
showAddrAddrStartOnly(qq) == <<qq[1], qq[1]>>

\* showAddr: the address win.Addr("#%d,#%d", q0, q1) sets.
showAddrAddr(qq) == <<qq[1], qq[2]>>

\* main: showAddr(win, q0, q1).  failAt = 0: no step fails; 1: win.Addr;
\* 2: Ctl("dot=addr\nshow\n").
showAddr ==
  /\ pc = "showAddr"
  /\ steps' = steps \cup {"showAddr"}
  /\ \E failAt \in 0..2 :
       /\ cmds' = cmds \o (IF failAt = 1 THEN <<"addr=#q0,#q1">>
                           ELSE <<"addr=#q0,#q1", "dot=addr show">>)
       /\ addr' = IF failAt = 1 THEN addr ELSE showAddrAddr(q)
       /\ dot' = IF failAt = 0 THEN showAddrAddr(q) ELSE dot
       /\ diag' = IF failAt = 0 THEN diag ELSE Append(diag, "showAddr")
       /\ failed' = IF failAt = 0 THEN failed ELSE failed \cup {"showAddr"}
       /\ status' = showAddrStatus(failAt = 0, status)
       /\ pc' = IF failAt = 0 THEN afterShowAddr(rev, "compare" \in steps)
                ELSE "out"
  /\ UNCHANGED <<rev, body, body0, off, addrOpen, q, sameSize, diff, fileVars,
                 auxVars>>

\* exitStatus with a failed removal turned into a failing exit.
exitStatusRemoveFatal(removeOk, st) == IF removeOk THEN st ELSE 1

\* exit: the status os.Exit is called with, removeOk telling whether
\* os.Remove succeeded.
exitStatus(removeOk, st) == st

\* exit(status, ffile) / the out: label: os.Remove(ffile), then
\* os.Exit(status).  Removing the empty name always fails.
exit ==
  /\ pc = "out"
  /\ steps' = steps \cup {"remove"}
  /\ \E ok \in BOOLEAN :
       /\ ffile = "" => ~ok
       /\ tmpExists' = IF ok THEN FALSE ELSE tmpExists
       /\ diag' = IF ok THEN diag ELSE Append(diag, "remove")
       /\ failed' = IF ok THEN failed ELSE failed \cup {"remove"}
       /\ status' = exitStatus(ok, status)
  /\ pc' = "exit"
  /\ UNCHANGED <<rev, body0, q, sameSize, diff, ffile, tmp, hostVars, auxVars>>

Next ==
  \/ usage
  \/ openWin
  \/ readAddr
  \/ format
  \/ compare
  \/ writeBody
  \/ showAddr
  \/ exit

Spec == Init /\ [][Next]_vars

\* main is one thread of control and every call it blocks on returns (the
\* formatter terminates, every stream is finite): a step that can be taken
\* is taken.
SpecLive == Init /\ [][Next]_vars /\ WF_vars(Next)

----------------------------------------------------------------------------
\* The comparison step on its own: every pair of temp file content and body,
\* the body wholly consumed by the formatter, main about to compare.
InitCmp ==
  /\ rev \in Revs
  /\ pc = "compare"
  /\ body \in Contents
  /\ body0 = body
  /\ off = Len(body)
  /\ dot = <<0, 0>>
  /\ addr = <<0, 0>>
  /\ addrOpen = TRUE
  /\ q = <<0, 0>>
  /\ ffile = "Fmt"
  /\ tmp \in Contents
  /\ tmpExists = TRUE
  /\ sameSize = (Len(tmp) = Len(body))
  /\ diff = ~sameSize
  /\ status = 0
  /\ diag = <<>>
  /\ cmds = <<"readaddr", "addr=dot", "readaddr">>
  /\ steps = {"format"}
  /\ failed = {}
  /\ loop = [n |-> 0, f |-> 0, b |-> 0]
  /\ wrap = [br |-> Len(body), fw |-> Len(tmp), ur |-> Len(body),
             uw |-> Len(tmp), ret |-> <<0, "nil">>, uret |-> <<0, "nil">>]

NextCmp == compare

SpecCmp == InitCmp /\ [][NextCmp]_vars

----------------------------------------------------------------------------
\* The counting wrappers on their own: format has created the temp file and
\* cmd.Run copies the body to the formatter through the sizeReader and the
\* formatter's output to the temp file through the sizeWriter, one Read or
\* Write call at a time, each returning any (n, err).

\* Most bytes the underlying streams return in all before the copying ends.
MaxCount == 4

\* What an underlying Read or Write returns as its error.
IOErrs == {"nil", "EOF", "err"}

InitCount ==
  /\ rev \in Revs
  /\ pc = "streaming"
  /\ body = <<>>
  /\ body0 = <<>>
  /\ off = 0
  /\ dot = <<0, 0>>
  /\ addr = <<0, 0>>
  /\ addrOpen = TRUE
  /\ q = <<0, 0>>
  /\ ffile = "Fmt"
  /\ tmp = <<>>
  /\ tmpExists = TRUE
  /\ sameSize = FALSE
  /\ diff = FALSE
  /\ status = 0
  /\ diag = <<>>
  /\ cmds = <<"readaddr", "addr=dot", "readaddr">>
  /\ steps = {}
  /\ failed = {}
  /\ loop = [n |-> 0, f |-> 0, b |-> 0]
  /\ wrap = [br |-> 0, fw |-> 0, ur |-> 0, uw |-> 0,
             ret |-> <<0, "nil">>, uret |-> <<0, "nil">>]

\* (*sizeReader).Read / (*countReader).Read: the underlying Read returns
\* (n, err).
sizeReaderRead ==
  /\ pc = "streaming"
  /\ \E n \in 0..MaxLen, err \in IOErrs :
       /\ wrap.ur + n <= MaxCount
       /\ wrap' = [wrap EXCEPT !.ur = @ + n,
                               !.uret = <<n, err>>,
                               !.br = sizeAdd(@, n, err),
                               !.ret = wrapReturn(n, err)]
  /\ UNCHANGED <<rev, pc, body, body0, off, dot, addr, addrOpen, q, ffile, tmp,
                 tmpExists, sameSize, diff, status, diag, cmds, steps, failed,
                 loop>>

\* (*sizeWriter).Write / (*countWriter).Write: the underlying Write returns
\* (n, err).
sizeWriterWrite ==
  /\ pc = "streaming"
  /\ \E n \in 0..MaxLen, err \in IOErrs \ {"EOF"} :
       /\ wrap.uw + n <= MaxCount
       /\ wrap' = [wrap EXCEPT !.uw = @ + n,
                               !.uret = <<n, err>>,
                               !.fw = sizeAdd(@, n, err),
                               !.ret = wrapReturn(n, err)]
  /\ UNCHANGED <<rev, pc, body, body0, off, dot, addr, addrOpen, q, ffile, tmp,
                 tmpExists, sameSize, diff, status, diag, cmds, steps, failed,
                 loop>>

NextCount == sizeReaderRead \/ sizeWriterWrite

SpecCount == InitCount /\ [][NextCount]_vars

----------------------------------------------------------------------------
\* Vocabulary of the properties.

Exited == pc = "exit"

Issued(c) == \E i \in DOMAIN cmds : cmds[i] = c

FormatOk == "format" \in steps /\ "format" \notin failed

SelectionCmds == {"addr=#q0,#q1", "dot=addr show"}

----------------------------------------------------------------------------
\* C1: when format returns an error (the command cannot be spawned, exits
\* nonzero, or the temp file fails to close), nothing is ever written to
\* "data", the body stays what it was at start, and the run exits 1.
C1_FormatFailureLeavesBody ==
  "format" \in failed =>
     /\ ~Issued("data")
     /\ body = body0
     /\ "writeBody" \notin steps
     /\ status = 1

\* C1 witness: a run whose formatter failed after leaving output that
\* differs from the body has exited.
C1_Witness ==
  /\ Exited
  /\ "format" \in failed
  /\ ffile # ""
  /\ tmp # body0
  /\ Len(tmp) > 0

\* C2: a run that created the temp file and whose os.Remove did not fail has
\* no temp file left when the process has terminated.
C2_TempFileRemoved ==
  (Exited /\ ffile # "" /\ "remove" \notin failed) => ~tmpExists

\* C3: formatter succeeded, output as long as the original body but different
\* from it: the run calls writeBody, and if that succeeds the body is the
\* formatter output.
C3_EqualSizeDifferentContentReplaces ==
  (Exited /\ FormatOk /\ Len(tmp) = Len(body0) /\ tmp # body0) =>
     /\ "writeBody" \in steps
     /\ ("writeBody" \notin failed => body = tmp)

\* C4 as stated: formatter succeeded with output identical to the body; then
\* in every run, also when the comparison's re-reads fail, there is no write
\* to "data", no address or selection request after the capture, and the
\* exit status is 0.
C4_IdenticalNeverWrites ==
  (Exited /\ FormatOk /\ tmp = body0) =>
     /\ ~Issued("data")
     /\ ~Issued("addr=0,$")
     /\ \A c \in SelectionCmds : ~Issued(c)
     /\ status = 0

\* C4 amended: formatter succeeded with output identical to the body, the
\* counted input and output lengths are equal, and the comparison (where the
\* revision makes one) re-reads both streams from their start without an I/O
\* failure; then there is no write to "data", no address or selection request
\* after the capture, the body is untouched and the exit status is 0.
C4_IdenticalNoWrite ==
  (Exited /\ FormatOk /\ tmp = body0 /\ sameSize
     /\ "compare" \notin failed /\ "seek" \notin failed) =>
     /\ ~Issued("data")
     /\ ~Issued("addr=0,$")
     /\ \A c \in SelectionCmds : ~Issued(c)
     /\ "writeBody" \notin steps
     /\ body = body0
     /\ status = 0

\* C4 witness: a run that compared a non-empty identical output byte by byte
\* and exited 0.
C4_Witness ==
  /\ Exited
  /\ FormatOk
  /\ tmp = body0
  /\ sameSize
  /\ Len(body0) > 0
  /\ "compare" \in steps
  /\ "compare" \notin failed
  /\ "seek" \notin failed
  /\ status = 0

\* C5: formatter succeeded and the counted output length differs from the
\* counted input length: the run calls writeBody; it does not end Unchanged
\* and no comparison step makes it exit before the replace.
C5_SizeMismatchReplaces ==
  (Exited /\ FormatOk /\ ~sameSize) => "writeBody" \in steps

\* C6: an I/O failure of the comparison is not fatal: the run goes on to
\* writeBody and its exit status is 0 exactly when writeBody and showAddr
\* succeed.
C6_CompareFailureNotFatal ==
  (Exited /\ "compare" \in failed) =>
     /\ "writeBody" \in steps
     /\ (status = 0 <=> ("writeBody" \notin failed /\ "showAddr" \notin failed))

\* C7: the comparator, reading both streams from their start without I/O
\* failure, reports them identical if and only if they are the same byte
\* sequence.
C7_ComparatorExact ==
  ("compare" \in steps /\ "compare" \notin failed /\ "seek" \notin failed) =>
     (~diff <=> tmp = body)

\* C8 (state part): the status is 0 or 1; at exit it is 1 if usage, window
\* open, selection capture, formatter, body write or selection restore
\* failed, and 0 if no performed step failed.
C8_StatusAtExit ==
  /\ status \in {0, 1}
  /\ Exited =>
       /\ (failed \cap {"usage", "open", "readAddr", "format",
                        "writeBody", "showAddr"} # {}) => status = 1
       /\ failed = {} => status = 0

\* C8: the exit status is always 0 or 1, decided as C8_StatusAtExit says, and
\* a status of 1 is never turned back into 0 by a later step.
C8_ExitStatus ==
  /\ []C8_StatusAtExit
  /\ [][status = 1 => status' = 1]_vars

\* C8 witness: the body was written, the selection restore failed, the temp
\* file was removed and the run exited 1.
C8_Witness ==
  /\ Exited
  /\ status = 1
  /\ "showAddr" \in failed
  /\ "writeBody" \notin failed
  /\ "remove" \in steps
  /\ "remove" \notin failed

\* C9: every nomark sent to the window is followed by a mark, on every way
\* out of writeBody, with no selection-restore request in between; so mark
\* precedes any selection restore and the exit of the process.
C9_MarkFollowsNomark ==
  \A i \in DOMAIN cmds :
     cmds[i] = "nomark" =>
        \E j \in DOMAIN cmds :
           /\ j > i
           /\ cmds[j] = "mark"
           /\ \A k \in (i + 1)..(j - 1) : cmds[k] \notin SelectionCmds

\* C9 witness: writeBody failed in io.Copy after writing to "data", under the
\* nomark bracket, and the run has exited.
C9_Witness ==
  /\ Exited
  /\ Issued("nomark")
  /\ Issued("data")
  /\ "writeBody" \in failed

\* C10: a run that exits with status 1 has written at least one line to the
\* diagnostic stream.
C10_FailureHasDiagnostic ==
  (Exited /\ status = 1) => Len(diag) > 0

\* Requests writeBody sends.
WriteCmds == {"nomark", "addr=0,$", "data", "mark"}

\* C11: a run that called writeBody and exited 0 has, after the requests of
\* the write, set the address to the <<q0, q1>> readAddr captured and then
\* sent dot=addr/show, so that address is the live selection; this whatever
\* the lengths of the old and new content.  No selection request is ever sent
\* before the last request of the body write.
C11_SelectionRestoredAfterWrite ==
  /\ \A i \in DOMAIN cmds : \A j \in DOMAIN cmds :
        (cmds[i] \in SelectionCmds /\ cmds[j] \in WriteCmds) => j < i
  /\ (Exited /\ status = 0 /\ "writeBody" \in steps) =>
        /\ Len(cmds) >= 2
        /\ SubSeq(cmds, Len(cmds) - 1, Len(cmds)) =
              <<"addr=#q0,#q1", "dot=addr show">>
        /\ addr = q
        /\ dot = q

\* C11 witness: the body was replaced by content of another length, a
\* non-empty selection was captured, and the run exited 0.
C11_Witness ==
  /\ Exited
  /\ status = 0
  /\ Issued("data")
  /\ Len(body) # Len(body0)
  /\ q[1] < q[2]
  /\ body = tmp

\* C12: when writeBody fails (os.Open, the Addr to the whole content, or the
\* copy into "data"), the run has status 1 and sends no selection-restore
\* request at all; showAddr is called, and so can fail, only after writeBody
\* returned without error, every byte of the temp file having gone to "data"
\* (with an empty temp file io.Copy makes no write and the body is as it was).
C12_WriteFailureSkipsRestore ==
  /\ "writeBody" \in failed =>
        /\ status = 1
        /\ "showAddr" \notin steps
        /\ \A c \in SelectionCmds : ~Issued(c)
  /\ ("showAddr" \in steps \/ \E c \in SelectionCmds : Issued(c)) =>
        /\ "writeBody" \in steps
        /\ "writeBody" \notin failed
        /\ body = IF Len(tmp) > 0 THEN tmp ELSE body0

\* C12 witness: io.Copy failed after part of the temp file reached "data",
\* and the run exited 1.
C12_Witness ==
  /\ Exited
  /\ status = 1
  /\ "writeBody" \in failed
  /\ Issued("data")
  /\ body # body0
  /\ body # tmp

\* C13: when the usage is bad, the window cannot be opened or the selection
\* cannot be captured, the run has exited with status 1, no temp file was
\* ever created, format was never called and nothing was written to the
\* buffer.
C13_EarlyFailureBeforeTempFile ==
  (failed \cap {"usage", "open", "readAddr"} # {}) =>
     /\ Exited
     /\ status = 1
     /\ ffile = ""
     /\ ~tmpExists
     /\ steps = {}
     /\ ~Issued("data")
     /\ body = body0

\* C13 witness: the second ReadAddr of readAddr failed and the run exited.
C13_Witness ==
  /\ Exited
  /\ "readAddr" \in failed
  /\ cmds = <<"readaddr", "addr=dot", "readaddr">>
  /\ Len(body0) > 0

\* C14: the cleanup never changes the status it was entered with, whether
\* os.Remove succeeds or not, and a failed removal is printed.
C14_RemoveFailureOnlyDiagnostic ==
  /\ [][pc = "out" => (pc' = "exit" /\ status' = status)]_vars
  /\ []("remove" \in failed => \E i \in DOMAIN diag : diag[i] = "remove")

\* C14 witness: os.Remove of an existing temp file failed and the run exited
\* with status 0.
C14_Witness ==
  /\ Exited
  /\ "remove" \in failed
  /\ ffile # ""
  /\ tmpExists
  /\ status = 0

\* C15: with no I/O error and both streams read from their start, the
\* comparison that ran gives what each of the three revisions' comparators
\* gives on the same temp file content and body: part_000's equalsBody,
\* fmt.go's equalsBody and the negation of part_001's bodyDiff agree.
C15_ComparatorsAgree ==
  ("compare" \in steps /\ "compare" \notin failed /\ "seek" \notin failed) =>
     \A r \in Revs : diff = compareDiff(r, tmp, body)

\* C16: a readAddr that returned without error has sent, in this order, the
\* priming ReadAddr, addr=dot and the second ReadAddr, and the pair it
\* returned is the live selection; a readAddr that failed sent a prefix of
\* these three requests and its error ended the run with status 1.
C16_ReadAddrPrimes ==
  /\ (pc \notin {"main", "openWin", "readAddr"} /\ steps = {}
        /\ failed \cap {"usage", "open", "readAddr"} = {}) =>
        /\ cmds = <<"readaddr", "addr=dot", "readaddr">>
        /\ q = dot
        /\ addr = dot
  /\ "readAddr" \in failed =>
        /\ cmds \in {<<"readaddr">>, <<"readaddr", "addr=dot">>,
                     <<"readaddr", "addr=dot", "readaddr">>}
        /\ Exited
        /\ status = 1

\* C16 witness: readAddr returned a selection other than the zero address.
C16_Witness ==
  /\ pc = "format"
  /\ q = dot
  /\ q[2] > 0
  /\ q[1] < q[2]

\* C17: when the counted input and output lengths differ, no comparison is
\* made: neither the body nor the temp file is read again before the write.
C17_SizeMismatchSkipsCompare ==
  (FormatOk /\ ~sameSize) => ("compare" \notin steps /\ ~Issued("seek"))

\* C18: when format could not create the temp file (it returns the empty
\* name), the run exits 1 without calling os.Remove and without printing a
\* tempfile-removal diagnostic.
C18_NoRemoveOfEmptyName ==
  (Exited /\ "format" \in steps /\ ffile = "") =>
     /\ status = 1
     /\ "remove" \notin steps
     /\ \A i \in DOMAIN diag : diag[i] # "remove"

\* The larger of two numbers.
Max(a, b) == IF a >= b THEN a ELSE b

\* C19: every run reaches Exit, and the read loop of the comparison makes at
\* most max(length of the temp file, length of the body stream) + 1
\* iterations, whichever stream ends first.
C19_Terminates ==
  /\ <>Exited
  /\ [](loop.n <= Max(loop.f, loop.b) + 1)

\* C19 witness: a byte-wise comparison of a temp file shorter than the body
\* stream ran past the end of the temp file, to the last iteration the bound
\* allows, and the run exited.
C19_Witness ==
  /\ Exited
  /\ rev # "part_000"
  /\ "compare" \in steps
  /\ loop.f < loop.b
  /\ loop.n = loop.b + 1

\* C20: after any sequence of Read and Write calls, each wrapper's counter is
\* the sum of the byte counts its underlying stream returned, the bytes of a
\* call that returned n > 0 together with an error included, and the last
\* call returned exactly the (n, err) of the underlying call.
C20_CounterIsSumOfReturned ==
  /\ wrap.br = wrap.ur
  /\ wrap.fw = wrap.uw
  /\ wrap.ret = wrap.uret

\* C20 witness: after earlier calls on both wrappers, a call returned bytes
\* together with an error.
C20_Witness ==
  /\ pc = "streaming"
  /\ wrap.uret[1] > 0
  /\ wrap.uret[2] = "err"
  /\ wrap.ur > wrap.uret[1]
  /\ wrap.uw > 0

====
